---- MODULE Spec2Model ----
(***************************************************************************)
(* The in-memory key/value storage of spiral/kv (package memory): a       *)
(* sync.Map of kv.Item guarded by nothing else, a reaper goroutine        *)
(* (gcPhase) woken by a one-second ticker, and the handlers Has, Get,     *)
(* MGet, Set, MExpire, TTL, Delete and Close.                             *)
(*                                                                         *)
(* Every handler is a loop of atomic sync.Map operations; a handler is    *)
(* one action.  The reaper is modelled step by step: sync.Map.Range       *)
(* loads an entry and then calls the callback, which deletes the key, so  *)
(* a handler can run between the load and the delete.                     *)
(*                                                                         *)
(* Strings that the code inspects (keys) are sequences of characters;     *)
(* time is time.Time.Unix(), whole seconds.                               *)
(*                                                                         *)
(* Further specifications run the handlers of several callers one         *)
(* sync.Map operation at a time (SpecConc), and the dispatcher's Set      *)
(* (RpcServer.Set), which fans a batch out to the storages of the         *)
(* registry in closures started with errgroup (SpecRpc).                  *)
(***************************************************************************)
EXTENDS Integers, Sequences, FiniteSets, TLC

VARIABLES
    heap,      \* Storage.heap: the sync.Map, a function key -> kv.Item on the stored keys
    now,       \* time.Now().Unix()
    tickCh,    \* ticker.C, a channel of capacity 1: NoTick or the time of the buffered tick
    gcPc,      \* where gcPhase is: "select", "range" (inside heap.Range), "fn" (inside the callback), "stopped"
    gcNow,     \* gcPhase's local now, the tick it received
    gcTodo,    \* the keys heap.Range has still to visit
    gcCur,     \* the key/value pair heap.Range handed to the callback
    closing,   \* a Close call is blocked on s.stop <- struct{}{}
    ret,       \* the caller: NoCall when idle, else the call that returned and its results
    callers,   \* concurrent callers: for each, the handler call it is in and how far that has come
    view,      \* for each concurrent caller, the map its own completed calls yield, one after the other
    rdb,       \* the keys of the redis server behind the registry's redis adapter
    rpcPc,     \* the dispatcher: "idle", or in RpcServer.Set at "go" (errg.Go), "inc" (i++) or "wait" (errg.Wait)
    rpcReq,    \* the decoded request: its items and its storage names
    rpcItems,  \* RpcServer.Set's local slice items
    rpcI,      \* the loop variable i of the fan-out loop, shared with the closures
    rpcGo,     \* the number of closures handed to errg.Go that have not run yet
    rpcCalls,  \* the Set calls the storages have received from this RPC call, in order
    rpcErr     \* the errgroup's error: the first a closure returned

vars == <<heap, now, tickCh, gcPc, gcNow, gcTodo, gcCur, closing, ret,
          callers, view, rdb, rpcPc, rpcReq, rpcItems, rpcI, rpcGo, rpcCalls, rpcErr>>

----------------------------------------------------------------------------
\* Bounds of the model.

MaxKeys == 2
MaxItems == 1
MaxTTL == 1
MaxTime == 4
StartTime == 1

\* Characters and keys.  A key is a string, a sequence of characters.
WhiteSpace == {" ", "\t", "\n", "\r"}

KeyUniverse == {<<>>, <<" ">>, <<"a">>, <<"b">>}

\* The keys the modelled callers pass to Set.
ItemKeys == {<<>>, <<"a">>, <<"b">>}

Values == {"", "v"}

\* Item.TTL as passed to Set; MExpire's timeout.
TTLs == (-1)..MaxTTL

Timeouts == 0..MaxTTL

SeqsUpTo(S, n) == UNION {[1..m -> S] : m \in 0..n}

\* A variadic argument: the nil slice (a call with no arguments) or a slice.
NilSlice == [isNil |-> TRUE, elems |-> <<>>]

Slice(s) == [isNil |-> FALSE, elems |-> s]

KeyArgs == {NilSlice} \cup {Slice(s) : s \in SeqsUpTo(KeyUniverse, MaxKeys)}

Items == [Key : ItemKeys, Value : Values, TTL : TTLs]

ItemArgs == {NilSlice} \cup {Slice(s) : s \in SeqsUpTo(Items, MaxItems)}

\* Batches for Set: items without expiry, one more than MaxItems of them.
BatchItems == [Key : ItemKeys, Value : Values, TTL : {0}]

BatchArgs == {Slice(s) : s \in SeqsUpTo(BatchItems, MaxItems + 1)}

\* The concurrent callers work on disjoint sets of keys.
OwnKeys(c) == IF c = 1 THEN {<<"a">>, <<"c">>} ELSE {<<"b">>}

ConcKeyArgs(c) == {NilSlice} \cup {Slice(s) : s \in SeqsUpTo(OwnKeys(c) \cup {<<>>}, MaxItems + 1)}

ConcItemArgs(c) ==
    {NilSlice} \cup {Slice(s) : s \in SeqsUpTo([Key : OwnKeys(c), Value : Values, TTL : {0}], MaxItems + 1)}

\* The calls made while the reaper and the clock run: one valid key each.
SweepKeys == {<<"a">>, <<"b">>}

SweepKeyArgs == {Slice(<<k>>) : k \in SweepKeys}

SweepItemArgs == {Slice(<<i>>) : i \in [Key : SweepKeys, Value : Values, TTL : 0..MaxTTL]}

SweepTimeouts == 1..MaxTTL

\* Two callers on the same keys: one sets and deletes, the other runs MExpire.
Writer == 1

Expirer == 2

RaceItemArgs == {Slice(s) : s \in SeqsUpTo([Key : SweepKeys, Value : Values, TTL : {0}], MaxItems)}

RaceKeyArgs == {Slice(s) : s \in SeqsUpTo(SweepKeys, MaxItems)}

\* Errors.
NoErr == "nil"

ErrNoKeys == "ErrNoKeys"

ErrEmptyKey == "ErrEmptyKey"

ErrMExpire == "should set timeout and at least one key"

ErrEmptyItem == "ErrEmptyItem"

\* kv.EmptyItem, the zero value of kv.Item.
EmptyItem == [Key |-> <<>>, Value |-> "", TTL |-> 0]

NoTick == 0

NoCall == [op |-> "none"]

NoCur == [key |-> <<>>, has |-> FALSE]

\* The goroutines that call the storage concurrently.
Callers == {1, 2}

\* No RPC request is being served.
NoReq == [items |-> <<>>, storages |-> <<>>]

\* r.svc.Storages, the registry: the in-memory storage and a redis adapter.
Memory == "memory"

Redis == "redis"

StorageNames == {Memory, Redis}

\* The storage names a request can carry: the registered ones and another.
WireNames == StorageNames \cup {"other"}

WireStorages == SeqsUpTo(WireNames, MaxItems + 1)

\* The item lists a Set request can carry.
WireItems == SeqsUpTo({[Key |-> <<"a">>, Value |-> "v", TTL |-> 0], EmptyItem}, MaxItems + 1)

----------------------------------------------------------------------------
\* strings.TrimSpace: drop the leading and the trailing white space.

RECURSIVE TrimLeft(_)
TrimLeft(s) ==
    IF s # <<>> /\ Head(s) \in WhiteSpace THEN TrimLeft(Tail(s)) ELSE s

RECURSIVE TrimRight(_)
TrimRight(s) ==
    IF s # <<>> /\ s[Len(s)] \in WhiteSpace
    THEN TrimRight(SubSeq(s, 1, Len(s) - 1))
    ELSE s

TrimSpace(s) == TrimRight(TrimLeft(s))

\* sync.Map operations.
Load(h, k) == k \in DOMAIN h

Store(h, k, v) == [x \in DOMAIN h \cup {k} |-> IF x = k THEN v ELSE h[x]]

\* MapDelete replacing the map by a new one, as Close does with its copy.
MapDeleteAll(h, k) == <<>>

MapDelete(h, k) == [x \in DOMAIN h \ {k} |-> h[x]]

\* map[string]T assignment m[k] = v
MapPut(m, k, v) == [x \in DOMAIN m \cup {k} |-> IF x = k THEN v ELSE m[x]]

EmptyMap == <<>>

----------------------------------------------------------------------------
\* The handlers, as functions of the map (and of the clock) they run against.

RECURSIVE HasLoop(_, _, _, _)
HasLoop(h, keys, i, m) ==
    IF i > Len(keys) THEN [res |-> m, err |-> NoErr]
    ELSE IF TrimSpace(keys[i]) = <<>> THEN [res |-> EmptyMap, err |-> ErrEmptyKey]
    ELSE HasLoop(h, keys, i + 1, MapPut(m, keys[i], Load(h, keys[i])))

StorageHas(h, keys) ==
    IF keys.isNil THEN [res |-> EmptyMap, err |-> ErrNoKeys]
    ELSE HasLoop(h, keys.elems, 1, EmptyMap)

\* Get's result: nil, or the bytes of the stored value.
NilBytes == [isNil |-> TRUE, bytes |-> ""]

Bytes(v) == [isNil |-> FALSE, bytes |-> v]

StorageGet(h, key) ==
    IF TrimSpace(key) = <<>> THEN [res |-> NilBytes, err |-> ErrEmptyKey]
    ELSE IF Load(h, key) THEN [res |-> Bytes(h[key].Value), err |-> NoErr]
    ELSE [res |-> NilBytes, err |-> NoErr]

\* "should not be empty keys": the validation loop of MGet, TTL and Delete.
HasEmptyKey(keys) == \E i \in 1..Len(keys) : TrimSpace(keys[i]) = <<>>

RECURSIVE MGetLoop(_, _, _, _)
MGetLoop(h, keys, i, m) ==
    IF i > Len(keys) THEN m
    ELSE MGetLoop(h, keys, i + 1,
                  IF Load(h, keys[i]) THEN Append(m, h[keys[i]]) ELSE m)

StorageMGet(h, keys) ==
    IF keys.isNil THEN [res |-> <<>>, err |-> ErrNoKeys]
    ELSE IF HasEmptyKey(keys.elems) THEN [res |-> <<>>, err |-> ErrEmptyKey]
    ELSE [res |-> MGetLoop(h, keys.elems, 1, <<>>), err |-> NoErr]

RECURSIVE TTLLoop(_, _, _, _)
TTLLoop(h, keys, i, m) ==
    IF i > Len(keys) THEN m
    ELSE TTLLoop(h, keys, i + 1,
                 IF Load(h, keys[i]) THEN MapPut(m, keys[i], h[keys[i]].TTL) ELSE m)

StorageTTL(h, keys) ==
    IF keys.isNil THEN [res |-> EmptyMap, err |-> ErrNoKeys]
    ELSE IF HasEmptyKey(keys.elems) THEN [res |-> EmptyMap, err |-> ErrEmptyKey]
    ELSE [res |-> TTLLoop(h, keys.elems, 1, EmptyMap), err |-> NoErr]

\* SetItem with the value left out of the struct literal of the no-TTL branch.
SetItemNoValue(kvItem, t) ==
    IF kvItem.TTL > 0
    THEN [Key |-> kvItem.Key, Value |-> kvItem.Value, TTL |-> t + kvItem.TTL]
    ELSE [Key |-> kvItem.Key, Value |-> "", TTL |-> 0]

\* The item Set stores for kvItem at time t.
SetItem(kvItem, t) ==
    IF kvItem.TTL > 0
    THEN [Key |-> kvItem.Key, Value |-> kvItem.Value, TTL |-> t + kvItem.TTL]
    ELSE [Key |-> kvItem.Key, Value |-> kvItem.Value, TTL |-> 0]

RECURSIVE SetLoop(_, _, _, _)
SetLoop(h, items, i, t) ==
    IF i > Len(items) THEN h
    ELSE SetLoop(Store(h, items[i].Key, SetItem(items[i], t)), items, i + 1, t)

StorageSet(h, items, t) ==
    IF items.isNil THEN [heap |-> h, err |-> ErrNoKeys]
    ELSE [heap |-> SetLoop(h, items.elems, 1, t), err |-> NoErr]

\* ExpireKey without the test that the key is stored.
ExpireKeyCreates(h, key, ut) ==
    Store(h, key, [Key |-> key,
                   Value |-> IF Load(h, key) THEN h[key].Value ELSE "",
                   TTL |-> ut])

\* ExpireKey storing a fresh item instead of the changed copy.
ExpireKeyFresh(h, key, ut) ==
    IF Load(h, key)
    THEN Store(h, key, [Key |-> key, Value |-> "", TTL |-> ut])
    ELSE h

\* What MExpire does for one key: load, change the TTL of the copy, store.
ExpireKey(h, key, ut) ==
    IF Load(h, key)
    THEN Store(h, key, [Key |-> h[key].Key, Value |-> h[key].Value, TTL |-> ut])
    ELSE h

RECURSIVE MExpireLoop(_, _, _, _)
MExpireLoop(h, keys, i, ut) ==
    IF i > Len(keys) THEN h
    ELSE MExpireLoop(ExpireKey(h, keys[i], ut), keys, i + 1, ut)

StorageMExpire(h, timeout, keys, t) ==
    IF timeout = 0 \/ keys.isNil THEN [heap |-> h, err |-> ErrMExpire]
    ELSE [heap |-> MExpireLoop(h, keys.elems, 1, t + timeout), err |-> NoErr]

\* DeleteLoop stopping one key early.
RECURSIVE DeleteLoopShort(_, _, _)
DeleteLoopShort(h, keys, i) ==
    IF i >= Len(keys) THEN h
    ELSE DeleteLoopShort(MapDelete(h, keys[i]), keys, i + 1)

RECURSIVE DeleteLoop(_, _, _)
DeleteLoop(h, keys, i) ==
    IF i > Len(keys) THEN h
    ELSE DeleteLoop(MapDelete(h, keys[i]), keys, i + 1)

\* StorageDelete checking each key right before it deletes it.
StorageDeleteEager(h, keys) ==
    IF keys.isNil THEN [heap |-> h, err |-> ErrNoKeys]
    ELSE IF HasEmptyKey(keys.elems)
    THEN LET bad == CHOOSE i \in 1..Len(keys.elems) :
                        /\ TrimSpace(keys.elems[i]) = <<>>
                        /\ \A j \in 1..(i - 1) : TrimSpace(keys.elems[j]) # <<>>
         IN  [heap |-> DeleteLoop(h, SubSeq(keys.elems, 1, bad - 1), 1), err |-> ErrEmptyKey]
    ELSE [heap |-> DeleteLoop(h, keys.elems, 1), err |-> NoErr]

StorageDelete(h, keys) ==
    IF keys.isNil THEN [heap |-> h, err |-> ErrNoKeys]
    ELSE IF HasEmptyKey(keys.elems) THEN [heap |-> h, err |-> ErrEmptyKey]
    ELSE [heap |-> DeleteLoop(h, keys.elems, 1), err |-> NoErr]

\* Expired with a second of grace.
ExpiredLate(tick, v) == tick > v.TTL + 1

\* gcPhase's test on a visited item.
Expired(tick, v) == tick > v.TTL

\* The redis adapter's Set; the server is taken to answer every SET with OK.
RECURSIVE RedisSetLoop(_, _, _)
RedisSetLoop(db, items, i) ==
    IF i > Len(items) THEN [db |-> db, err |-> NoErr]
    ELSE IF items[i] = EmptyItem THEN [db |-> db, err |-> ErrEmptyItem]
    ELSE RedisSetLoop(Store(db, items[i].Key, [Value |-> items[i].Value, TTL |-> items[i].TTL]),
                      items, i + 1)

RedisSet(db, items) ==
    IF items.isNil THEN [db |-> db, err |-> ErrNoKeys]
    ELSE RedisSetLoop(db, items.elems, 1)

\* The redis adapter's other handlers.  The server holds, for a key, its
\* value and the expiry it was given in seconds (0: none); it answers every
\* command, and its own expiring of keys is not part of this model.

ErrRedisNil == "redis: nil"

RECURSIVE RedisHasLoop(_, _, _, _)
RedisHasLoop(db, keys, i, m) ==
    IF i > Len(keys) THEN [res |-> m, err |-> NoErr]
    ELSE IF TrimSpace(keys[i]) = <<>> THEN [res |-> EmptyMap, err |-> ErrEmptyKey]
    ELSE RedisHasLoop(db, keys, i + 1, MapPut(m, keys[i], Load(db, keys[i])))

RedisHas(db, keys) ==
    IF keys.isNil THEN [res |-> EmptyMap, err |-> ErrNoKeys]
    ELSE RedisHasLoop(db, keys.elems, 1, EmptyMap)

\* client.Get(key).Bytes(): the value, or the error redis.Nil for a key the
\* server does not hold.
RedisGet(db, key) ==
    IF TrimSpace(key) = <<>> THEN [res |-> NilBytes, err |-> ErrEmptyKey]
    ELSE IF Load(db, key) THEN [res |-> Bytes(db[key].Value), err |-> NoErr]
    ELSE [res |-> NilBytes, err |-> ErrRedisNil]

\* client.MGet(keys...): one answer per key, nil for a key the server does
\* not hold.
RedisMGet(db, keys) ==
    IF keys.isNil THEN [res |-> <<>>, err |-> ErrNoKeys]
    ELSE IF HasEmptyKey(keys.elems) THEN [res |-> <<>>, err |-> ErrEmptyKey]
    ELSE [res |-> [i \in 1..Len(keys.elems) |->
                      IF Load(db, keys.elems[i]) THEN Bytes(db[keys.elems[i]].Value) ELSE NilBytes],
          err |-> NoErr]

\* client.TTL(key): the expiry in seconds, -1 for a key without expiry, -2
\* for a key the server does not hold.
RedisTTLOf(db, key) ==
    IF ~Load(db, key) THEN -2
    ELSE IF db[key].TTL = 0 THEN -1
    ELSE db[key].TTL

RECURSIVE RedisTTLLoop(_, _, _, _)
RedisTTLLoop(db, keys, i, m) ==
    IF i > Len(keys) THEN m
    ELSE RedisTTLLoop(db, keys, i + 1, MapPut(m, keys[i], RedisTTLOf(db, keys[i])))

RedisTTL(db, keys) ==
    IF keys.isNil THEN [res |-> EmptyMap, err |-> ErrNoKeys]
    ELSE IF HasEmptyKey(keys.elems) THEN [res |-> EmptyMap, err |-> ErrEmptyKey]
    ELSE [res |-> RedisTTLLoop(db, keys.elems, 1, EmptyMap), err |-> NoErr]

RedisDelete(db, keys) ==
    IF keys.isNil THEN [db |-> db, err |-> ErrNoKeys]
    ELSE IF HasEmptyKey(keys.elems) THEN [db |-> db, err |-> ErrEmptyKey]
    ELSE [db |-> DeleteLoop(db, keys.elems, 1), err |-> NoErr]

\* client.Expire(key, t): the key's expiry, for a key the server holds.
RECURSIVE RedisExpireLoop(_, _, _, _)
RedisExpireLoop(db, keys, i, timeout) ==
    IF i > Len(keys) THEN db
    ELSE RedisExpireLoop(IF Load(db, keys[i])
                         THEN Store(db, keys[i], [Value |-> db[keys[i]].Value, TTL |-> timeout])
                         ELSE db,
                         keys, i + 1, timeout)

RedisMExpire(db, timeout, keys) ==
    IF timeout = 0 \/ keys.isNil THEN [db |-> db, err |-> ErrMExpire]
    ELSE [db |-> RedisExpireLoop(db, keys.elems, 1, timeout), err |-> NoErr]

\* The slice RpcServer.Set builds from the items of a request:
\* make([]Item, 0, n), then items[i] = itc for every i below n.  The slice
\* has length 0, so the first assignment is out of range and panics.
RpcItems(wire) ==
    IF Len(wire) > 0
    THEN [panic |-> TRUE, items |-> Slice(<<>>)]
    ELSE [panic |-> FALSE, items |-> Slice(<<>>)]

\* The slice the RPC dispatcher builds from the keys of a request:
\* make([]string, 0, l) and one append per key; never nil.
RpcKeys(wire) == Slice(wire)

----------------------------------------------------------------------------
Init ==
    /\ heap = EmptyMap
    /\ now = StartTime
    /\ tickCh = NoTick
    /\ gcPc = "select"
    /\ gcNow = NoTick
    /\ gcTodo = {}
    /\ gcCur = NoCur
    /\ closing = FALSE
    /\ ret = NoCall
    /\ callers = [c \in Callers |-> NoCall]
    /\ view = [c \in Callers |-> EmptyMap]
    /\ rdb = EmptyMap
    /\ rpcPc = "idle"
    /\ rpcReq = NoReq
    /\ rpcItems = NilSlice
    /\ rpcI = 0
    /\ rpcGo = 0
    /\ rpcCalls = <<>>
    /\ rpcErr = NoErr

gcVars == <<tickCh, gcPc, gcNow, gcTodo, gcCur>>

concVars == <<callers, view>>

rpcVars == <<rdb, rpcPc, rpcReq, rpcItems, rpcI, rpcGo, rpcCalls, rpcErr>>

\* What the single caller's handlers, the clock and the reaper leave alone.
auxVars == <<concVars, rpcVars>>

\* A handler is entered by the idle caller.
Idle == ret = NoCall /\ ~closing

Has(keys) ==
    /\ Idle
    /\ LET r == StorageHas(heap, keys)
       IN ret' = [op |-> "Has", keys |-> keys, res |-> r.res, err |-> r.err]
    /\ UNCHANGED <<heap, now, gcVars, closing>>
    /\ UNCHANGED auxVars

Get(key) ==
    /\ Idle
    /\ LET r == StorageGet(heap, key)
       IN ret' = [op |-> "Get", keys |-> Slice(<<key>>), res |-> r.res, err |-> r.err]
    /\ UNCHANGED <<heap, now, gcVars, closing>>
    /\ UNCHANGED auxVars

MGet(keys) ==
    /\ Idle
    /\ LET r == StorageMGet(heap, keys)
       IN ret' = [op |-> "MGet", keys |-> keys, res |-> r.res, err |-> r.err]
    /\ UNCHANGED <<heap, now, gcVars, closing>>
    /\ UNCHANGED auxVars

TTL(keys) ==
    /\ Idle
    /\ LET r == StorageTTL(heap, keys)
       IN ret' = [op |-> "TTL", keys |-> keys, res |-> r.res, err |-> r.err]
    /\ UNCHANGED <<heap, now, gcVars, closing>>
    /\ UNCHANGED auxVars

Set(items) ==
    /\ Idle
    /\ LET r == StorageSet(heap, items, now)
       IN /\ heap' = r.heap
          /\ ret' = [op |-> "Set", items |-> items, err |-> r.err]
    /\ UNCHANGED <<now, gcVars, closing>>
    /\ UNCHANGED auxVars

MExpire(timeout, keys) ==
    /\ Idle
    /\ LET r == StorageMExpire(heap, timeout, keys, now)
       IN /\ heap' = r.heap
          /\ ret' = [op |-> "MExpire", timeout |-> timeout, keys |-> keys, err |-> r.err]
    /\ UNCHANGED <<now, gcVars, closing>>
    /\ UNCHANGED auxVars

Delete(keys) ==
    /\ Idle
    /\ LET r == StorageDelete(heap, keys)
       IN /\ heap' = r.heap
          /\ ret' = [op |-> "Delete", keys |-> keys, err |-> r.err]
    /\ UNCHANGED <<now, gcVars, closing>>
    /\ UNCHANGED auxVars

\* Close has a value receiver: s.heap = &sync.Map{} replaces the map of the
\* receiver's copy and leaves the storage's map alone.  The send on the
\* unbuffered s.stop then blocks until gcPhase receives.
Close ==
    /\ Idle
    /\ closing' = TRUE
    /\ UNCHANGED <<heap, now, gcVars, ret>>
    /\ UNCHANGED auxVars

\* The dispatcher's Has: the keys of the request, as a slice, to Storage.Has.
RpcHas(wire) ==
    /\ Idle
    /\ LET r == StorageHas(heap, RpcKeys(wire))
       IN ret' = [op |-> "RpcHas", keys |-> RpcKeys(wire), res |-> r.res, err |-> r.err]
    /\ UNCHANGED <<heap, now, gcVars, closing>>
    /\ UNCHANGED auxVars

\* The caller takes the result and is idle again.
Return ==
    /\ ret # NoCall
    /\ ret' = NoCall
    /\ UNCHANGED <<heap, now, gcVars, closing>>
    /\ UNCHANGED auxVars

----------------------------------------------------------------------------
\* The clock and the ticker.  A second passes; the ticker sends the time on
\* ticker.C unless a tick is still buffered there, or the ticker was stopped.
Tick ==
    /\ now < MaxTime
    /\ now' = now + 1
    /\ tickCh' = IF tickCh = NoTick /\ gcPc # "stopped" THEN now + 1 ELSE tickCh
    /\ UNCHANGED <<heap, gcPc, gcNow, gcTodo, gcCur, closing, ret>>
    /\ UNCHANGED auxVars

\* After a visit: more keys, or Range returns and gcPhase selects again.
AfterVisit(todo) == IF todo = {} THEN "select" ELSE "range"

\* case now := <-ticker.C: heap.Range starts.  Range visits the keys it finds
\* in the map when it starts; a key stored meanwhile may or may not be visited.
GcTick ==
    /\ gcPc = "select"
    /\ tickCh # NoTick
    /\ tickCh' = NoTick
    /\ \E S \in SUBSET SweepKeys :
          /\ DOMAIN heap \subseteq S
          /\ gcTodo' = S
          /\ gcPc' = AfterVisit(S)
          /\ gcNow' = IF S = {} THEN NoTick ELSE tickCh
    /\ UNCHANGED <<heap, now, gcCur, closing, ret>>
    /\ UNCHANGED auxVars

\* Range loads the next entry; a deleted entry is skipped.
GcLoad(k) ==
    /\ gcPc = "range"
    /\ k \in gcTodo
    /\ IF Load(heap, k)
       THEN /\ gcCur' = [key |-> k, has |-> TRUE, val |-> heap[k]]
            /\ gcPc' = "fn"
            /\ UNCHANGED <<gcTodo, gcNow>>
       ELSE /\ gcTodo' = gcTodo \ {k}
            /\ gcPc' = AfterVisit(gcTodo \ {k})
            /\ gcNow' = IF gcTodo \ {k} = {} THEN NoTick ELSE gcNow
            /\ UNCHANGED gcCur
    /\ UNCHANGED <<heap, now, tickCh, closing, ret>>
    /\ UNCHANGED auxVars

\* The callback: delete the key when the value Range loaded has expired.
GcFn ==
    /\ gcPc = "fn"
    /\ heap' = IF Expired(gcNow, gcCur.val) THEN MapDelete(heap, gcCur.key) ELSE heap
    /\ gcTodo' = gcTodo \ {gcCur.key}
    /\ gcPc' = AfterVisit(gcTodo \ {gcCur.key})
    /\ gcNow' = IF gcTodo \ {gcCur.key} = {} THEN NoTick ELSE gcNow
    /\ gcCur' = NoCur
    /\ UNCHANGED <<now, tickCh, closing, ret>>
    /\ UNCHANGED auxVars

\* GcStop going back to the select instead of returning.
GcStopKeepsOn ==
    /\ gcPc = "select"
    /\ closing
    /\ gcPc' = "select"
    /\ closing' = FALSE
    /\ ret' = [op |-> "Close", err |-> NoErr]
    /\ UNCHANGED <<heap, now, tickCh, gcNow, gcTodo, gcCur>>
    /\ UNCHANGED auxVars

\* case <-s.stop: the rendezvous with a blocked Close; gcPhase returns.
GcStop ==
    /\ gcPc = "select"
    /\ closing
    /\ gcPc' = "stopped"
    /\ closing' = FALSE
    /\ ret' = [op |-> "Close", err |-> NoErr]
    /\ UNCHANGED <<heap, now, tickCh, gcNow, gcTodo, gcCur>>
    /\ UNCHANGED auxVars

\* The storage with its reaper and the clock; the caller passes one valid key.
Next ==
    \/ \E keys \in SweepKeyArgs : Has(keys)
    \/ \E key \in SweepKeys : Get(key)
    \/ \E keys \in SweepKeyArgs : MGet(keys)
    \/ \E keys \in SweepKeyArgs : TTL(keys)
    \/ \E items \in SweepItemArgs : Set(items)
    \/ \E timeout \in SweepTimeouts, keys \in SweepKeyArgs : MExpire(timeout, keys)
    \/ \E keys \in SweepKeyArgs : Delete(keys)
    \/ Close
    \/ \E k \in SweepKeys : RpcHas(<<k>>)
    \/ Return
    \/ Tick
    \/ GcTick
    \/ \E k \in SweepKeys : GcLoad(k)
    \/ GcFn
    \/ GcStop

Spec == Init /\ [][Next]_vars

\* The handlers on every argument list, within the first second of the
\* storage's life (the ticker has not fired yet).
NextOps ==
    \/ \E wire \in SeqsUpTo(KeyUniverse, MaxKeys) : RpcHas(wire)
    \/ \E keys \in KeyArgs : Has(keys)
    \/ \E key \in KeyUniverse : Get(key)
    \/ \E keys \in KeyArgs : MGet(keys)
    \/ \E keys \in KeyArgs : TTL(keys)
    \/ \E items \in ItemArgs : Set(items)
    \/ \E timeout \in Timeouts, keys \in KeyArgs : MExpire(timeout, keys)
    \/ \E keys \in KeyArgs : Delete(keys)
    \/ Return

SpecOps == Init /\ [][NextOps]_vars

\* The same storage when the reaper keeps up with its ticker: a sweep ends
\* within the second of its tick, so the clock moves on only when gcPhase is
\* back in its select with no tick buffered (or has returned).
TickTimed ==
    /\ gcPc = "stopped" \/ (gcPc = "select" /\ tickCh = NoTick)
    /\ Tick

NextTimed ==
    \/ \E keys \in SweepKeyArgs : Has(keys)
    \/ \E key \in SweepKeys : Get(key)
    \/ \E keys \in SweepKeyArgs : MGet(keys)
    \/ \E keys \in SweepKeyArgs : TTL(keys)
    \/ \E items \in SweepItemArgs : Set(items)
    \/ \E timeout \in SweepTimeouts, keys \in SweepKeyArgs : MExpire(timeout, keys)
    \/ \E keys \in SweepKeyArgs : Delete(keys)
    \/ Close
    \/ \E k \in SweepKeys : RpcHas(<<k>>)
    \/ Return
    \/ TickTimed
    \/ GcTick
    \/ \E k \in SweepKeys : GcLoad(k)
    \/ GcFn
    \/ GcStop

SpecTimed == Init /\ [][NextTimed]_vars

----------------------------------------------------------------------------
\* Concurrent callers.  A handler's tests on its arguments touch nothing
\* shared and belong to the step that enters it; after that every sync.Map
\* operation of its loop is a step of its own, so the calls of different
\* callers interleave operation by operation.  The last operation of a loop
\* and the return are one step.

concRest == <<now, gcVars, closing, ret, rpcVars>>

\* The call of a caller: op, arguments, the index i of the next loop
\* iteration, the result map (Has), error, and pc "run" or "done".
Call(op, args, pc, i, res, err) ==
    [op |-> op, args |-> args, pc |-> pc, i |-> i, res |-> res, err |-> err]

CSet(c, items) ==
    /\ callers[c] = NoCall
    /\ callers' = [callers EXCEPT ![c] =
           IF items.isNil THEN Call("Set", items, "done", 1, EmptyMap, ErrNoKeys)
           ELSE IF Len(items.elems) = 0 THEN Call("Set", items, "done", 1, EmptyMap, NoErr)
           ELSE Call("Set", items, "run", 1, EmptyMap, NoErr)]
    /\ UNCHANGED <<heap, view, concRest>>

\* One iteration of Set's loop: s.heap.Store.
CSetStep(c) ==
    /\ callers[c].op = "Set"
    /\ callers[c].pc = "run"
    /\ LET cl == callers[c]
           it == cl.args.elems[cl.i]
           last == cl.i = Len(cl.args.elems)
       IN  /\ heap' = Store(heap, it.Key, SetItem(it, now))
           /\ callers' = [callers EXCEPT ![c] =
                  Call("Set", cl.args, IF last THEN "done" ELSE "run", cl.i + 1, EmptyMap, NoErr)]
           /\ view' = IF last
                      THEN [view EXCEPT ![c] = StorageSet(view[c], cl.args, now).heap]
                      ELSE view
    /\ UNCHANGED concRest

CHas(c, keys) ==
    /\ callers[c] = NoCall
    /\ callers' = [callers EXCEPT ![c] =
           IF keys.isNil THEN Call("Has", keys, "done", 1, EmptyMap, ErrNoKeys)
           ELSE IF Len(keys.elems) = 0 THEN Call("Has", keys, "done", 1, EmptyMap, NoErr)
           ELSE Call("Has", keys, "run", 1, EmptyMap, NoErr)]
    /\ UNCHANGED <<heap, view, concRest>>

\* One iteration of Has's loop: the test of the key, then s.heap.Load.
CHasStep(c) ==
    /\ callers[c].op = "Has"
    /\ callers[c].pc = "run"
    /\ LET cl == callers[c]
           key == cl.args.elems[cl.i]
           last == cl.i = Len(cl.args.elems)
       IN  callers' = [callers EXCEPT ![c] =
               IF TrimSpace(key) = <<>>
               THEN Call("Has", cl.args, "done", cl.i, EmptyMap, ErrEmptyKey)
               ELSE Call("Has", cl.args, IF last THEN "done" ELSE "run", cl.i + 1,
                         MapPut(cl.res, key, Load(heap, key)), NoErr)]
    /\ UNCHANGED <<heap, view, concRest>>

CDelete(c, keys) ==
    /\ callers[c] = NoCall
    /\ callers' = [callers EXCEPT ![c] =
           IF keys.isNil THEN Call("Delete", keys, "done", 1, EmptyMap, ErrNoKeys)
           ELSE IF HasEmptyKey(keys.elems) THEN Call("Delete", keys, "done", 1, EmptyMap, ErrEmptyKey)
           ELSE IF Len(keys.elems) = 0 THEN Call("Delete", keys, "done", 1, EmptyMap, NoErr)
           ELSE Call("Delete", keys, "run", 1, EmptyMap, NoErr)]
    /\ UNCHANGED <<heap, view, concRest>>

\* One iteration of Delete's second loop: s.heap.Delete.
CDeleteStep(c) ==
    /\ callers[c].op = "Delete"
    /\ callers[c].pc = "run"
    /\ LET cl == callers[c]
           last == cl.i = Len(cl.args.elems)
       IN  /\ heap' = MapDelete(heap, cl.args.elems[cl.i])
           /\ callers' = [callers EXCEPT ![c] =
                  Call("Delete", cl.args, IF last THEN "done" ELSE "run", cl.i + 1, EmptyMap, NoErr)]
           /\ view' = IF last
                      THEN [view EXCEPT ![c] = StorageDelete(view[c], cl.args).heap]
                      ELSE view
    /\ UNCHANGED concRest

\* The caller takes the result of its call.
CReturn(c) ==
    /\ callers[c] # NoCall
    /\ callers[c].pc = "done"
    /\ callers' = [callers EXCEPT ![c] = NoCall]
    /\ UNCHANGED <<heap, view, concRest>>

\* MExpire: the test of its arguments and ut; res holds ut and, between the
\* Load and the Store of an iteration, the item loaded.
CMExpire(c, timeout, keys) ==
    /\ callers[c] = NoCall
    /\ callers' = [callers EXCEPT ![c] =
           IF timeout = 0 \/ keys.isNil
           THEN Call("MExpire", keys, "done", 1, [ut |-> 0], ErrMExpire)
           ELSE IF Len(keys.elems) = 0
           THEN Call("MExpire", keys, "done", 1, [ut |-> now + timeout], NoErr)
           ELSE Call("MExpire", keys, "run", 1, [ut |-> now + timeout], NoErr)]
    /\ UNCHANGED <<heap, view, concRest>>

\* if item, ok := s.heap.Load(key); ok: the item is copied into kvItem.
CMExpireLoad(c) ==
    /\ callers[c].op = "MExpire"
    /\ callers[c].pc = "run"
    /\ LET cl == callers[c]
           key == cl.args.elems[cl.i]
           last == cl.i = Len(cl.args.elems)
       IN  callers' = [callers EXCEPT ![c] =
               IF Load(heap, key)
               THEN Call("MExpire", cl.args, "store", cl.i, [ut |-> cl.res.ut, item |-> heap[key]], NoErr)
               ELSE Call("MExpire", cl.args, IF last THEN "done" ELSE "run", cl.i + 1,
                         [ut |-> cl.res.ut], NoErr)]
    /\ UNCHANGED <<heap, view, concRest>>

\* kvItem.TTL = int(ut); s.heap.Store(key, kvItem)
CMExpireStore(c) ==
    /\ callers[c].op = "MExpire"
    /\ callers[c].pc = "store"
    /\ LET cl == callers[c]
           key == cl.args.elems[cl.i]
           last == cl.i = Len(cl.args.elems)
       IN  /\ heap' = Store(heap, key, [Key |-> cl.res.item.Key, Value |-> cl.res.item.Value,
                                        TTL |-> cl.res.ut])
           /\ callers' = [callers EXCEPT ![c] =
                  Call("MExpire", cl.args, IF last THEN "done" ELSE "run", cl.i + 1,
                       [ut |-> cl.res.ut], NoErr)]
    /\ UNCHANGED <<view, concRest>>

\* One caller running Set and Delete, another running MExpire, on the same
\* keys, within the first second.
NextRace ==
    \/ \E items \in RaceItemArgs : CSet(Writer, items)
    \/ CSetStep(Writer)
    \/ \E keys \in RaceKeyArgs : CDelete(Writer, keys)
    \/ CDeleteStep(Writer)
    \/ \E timeout \in Timeouts, keys \in RaceKeyArgs : CMExpire(Expirer, timeout, keys)
    \/ CMExpireLoad(Expirer)
    \/ CMExpireStore(Expirer)
    \/ \E c \in Callers : CReturn(c)

SpecRace == Init /\ [][NextRace]_vars

\* Callers running Set, Has and Delete concurrently, each on its own keys,
\* within the first second.
NextConc ==
    \E c \in Callers :
        \/ \E items \in ConcItemArgs(c) : CSet(c, items)
        \/ CSetStep(c)
        \/ \E keys \in ConcKeyArgs(c) : CHas(c, keys)
        \/ CHasStep(c)
        \/ \E keys \in ConcKeyArgs(c) : CDelete(c, keys)
        \/ CDeleteStep(c)
        \/ CReturn(c)

SpecConc == Init /\ [][NextConc]_vars

----------------------------------------------------------------------------
\* RpcServer.Set: decode the items, start one closure per storage name with
\* errg.Go, wait for them.  The closures read the loop variable i when they
\* run, not when they are started.

rpcRest == <<now, gcVars, closing, concVars>>

\* The result of an RPC Set: the request, whether the call panicked, the
\* error it returned, the Set calls the storages received, and the reply
\* *ok, which RpcServer.Set never assigns.
RpcResult(items, storages, panic, err, calls) ==
    [op |-> "RpcSet", items |-> items, storages |-> storages,
     panic |-> panic, ok |-> FALSE, err |-> err, calls |-> calls]

RpcSet(items, storages) ==
    /\ Idle
    /\ rpcPc = "idle"
    /\ IF RpcItems(items).panic
       THEN /\ ret' = RpcResult(items, storages, TRUE, NoErr, <<>>)
            /\ UNCHANGED <<rpcPc, rpcReq, rpcItems, rpcI>>
       ELSE /\ rpcPc' = IF Len(storages) > 0 THEN "go" ELSE "wait"
            /\ rpcReq' = [items |-> items, storages |-> storages]
            /\ rpcItems' = RpcItems(items).items
            /\ rpcI' = 0
            /\ UNCHANGED ret
    /\ UNCHANGED <<heap, rdb, rpcGo, rpcCalls, rpcErr, rpcRest>>

\* errg.Go(func() error {...}): the closure is started.
RpcGo ==
    /\ rpcPc = "go"
    /\ rpcGo' = rpcGo + 1
    /\ rpcPc' = "inc"
    /\ UNCHANGED <<heap, rdb, ret, rpcReq, rpcItems, rpcI, rpcCalls, rpcErr, rpcRest>>

\* i++ and the loop test.
RpcInc ==
    /\ rpcPc = "inc"
    /\ rpcI' = rpcI + 1
    /\ rpcPc' = IF rpcI + 1 < Len(rpcReq.storages) THEN "go" ELSE "wait"
    /\ UNCHANGED <<heap, rdb, ret, rpcReq, rpcItems, rpcGo, rpcCalls, rpcErr, rpcRest>>

\* The names dataRoot.Storages(i) can yield: the i-th name of the request, or,
\* for an i past the end of the vector, whatever bytes lie there.
StoragesAt(storages, i) == IF i < Len(storages) THEN {storages[i + 1]} ELSE WireNames

\* A closure runs: r.svc.Storages[string(dataRoot.Storages(i))].Set(ctx, items...)
\* with the i of that moment.  A name the registry does not hold yields a nil
\* kv.Storage, and the call on it panics.
RpcTask(name) ==
    /\ rpcPc \in {"go", "inc", "wait"}
    /\ rpcGo > 0
    /\ name \in StoragesAt(rpcReq.storages, rpcI)
    /\ IF name \notin StorageNames
       THEN /\ ret' = RpcResult(rpcReq.items, rpcReq.storages, TRUE, rpcErr, rpcCalls)
            /\ rpcPc' = "idle"
            /\ rpcReq' = NoReq
            /\ rpcItems' = NilSlice
            /\ rpcI' = 0
            /\ rpcGo' = 0
            /\ rpcCalls' = <<>>
            /\ rpcErr' = NoErr
            /\ UNCHANGED <<heap, rdb>>
       ELSE LET r == IF name = Memory
                     THEN StorageSet(heap, rpcItems, now)
                     ELSE [heap |-> heap, err |-> RedisSet(rdb, rpcItems).err]
            IN  /\ heap' = r.heap
                /\ rdb' = IF name = Redis THEN RedisSet(rdb, rpcItems).db ELSE rdb
                /\ rpcCalls' = Append(rpcCalls, [storage |-> name, items |-> rpcItems])
                /\ rpcErr' = IF rpcErr = NoErr THEN r.err ELSE rpcErr
                /\ rpcGo' = rpcGo - 1
                /\ UNCHANGED <<ret, rpcPc, rpcReq, rpcItems, rpcI>>
    /\ UNCHANGED rpcRest

\* return errg.Wait(): every closure has returned.
RpcWait ==
    /\ rpcPc = "wait"
    /\ rpcGo = 0
    /\ ret' = RpcResult(rpcReq.items, rpcReq.storages, FALSE, rpcErr, rpcCalls)
    /\ rpcPc' = "idle"
    /\ rpcReq' = NoReq
    /\ rpcItems' = NilSlice
    /\ rpcI' = 0
    /\ rpcCalls' = <<>>
    /\ rpcErr' = NoErr
    /\ UNCHANGED <<heap, rdb, rpcGo, rpcRest>>

\* A caller of the in-memory storage itself, between two RPC calls.
DirectSet(items) ==
    /\ rpcPc = "idle"
    /\ Set(items)

\* The dispatcher serving Set requests, and direct calls of the in-memory
\* storage between them, within the first second.
NextRpc ==
    \/ \E items \in WireItems, storages \in WireStorages : RpcSet(items, storages)
    \/ RpcGo
    \/ RpcInc
    \/ \E name \in WireNames : RpcTask(name)
    \/ RpcWait
    \/ \E items \in SweepItemArgs : DirectSet(items)
    \/ Return

SpecRpc == Init /\ [][NextRpc]_vars

----------------------------------------------------------------------------
\* The call context.  Every handler takes ctx context.Context as its first
\* parameter and none of them reads it: a handler does the same with a
\* cancelled context as with a live one.

SetCtx(cancelled, items) ==
    /\ Idle
    /\ LET r == StorageSet(heap, items, now)
       IN  /\ heap' = r.heap
           /\ ret' = [op |-> "Set", cancelled |-> cancelled, items |-> items, err |-> r.err]
    /\ UNCHANGED <<now, gcVars, closing, auxVars>>

DeleteCtx(cancelled, keys) ==
    /\ Idle
    /\ LET r == StorageDelete(heap, keys)
       IN  /\ heap' = r.heap
           /\ ret' = [op |-> "Delete", cancelled |-> cancelled, keys |-> keys, err |-> r.err]
    /\ UNCHANGED <<now, gcVars, closing, auxVars>>

HasCtx(cancelled, keys) ==
    /\ Idle
    /\ LET r == StorageHas(heap, keys)
       IN  ret' = [op |-> "Has", cancelled |-> cancelled, keys |-> keys, res |-> r.res, err |-> r.err]
    /\ UNCHANGED <<heap, now, gcVars, closing, auxVars>>

\* Calls with a live or a cancelled context, within the first second.
NextCtx ==
    \/ \E cancelled \in BOOLEAN, items \in SweepItemArgs : SetCtx(cancelled, items)
    \/ \E cancelled \in BOOLEAN, keys \in SweepKeyArgs : DeleteCtx(cancelled, keys)
    \/ \E cancelled \in BOOLEAN, keys \in SweepKeyArgs : HasCtx(cancelled, keys)
    \/ Return

SpecCtx == Init /\ [][NextCtx]_vars

\* Set on batches of several items, and Delete, within the first second.
NextBatch ==
    \/ \E items \in BatchArgs : Set(items)
    \/ \E keys \in SweepKeyArgs : Delete(keys)
    \/ Return

SpecBatch == Init /\ [][NextBatch]_vars

----------------------------------------------------------------------------
\* The dispatcher's single-storage handlers.  Each looks the storage up in
\* r.svc.Storages by the name of the request and calls its handler; none
\* tests whether the registry holds the name.

dispRest == <<now, tickCh, gcPc, gcNow, gcTodo, gcCur, concVars,
              rpcReq, rpcItems, rpcI, rpcGo, rpcCalls, rpcErr>>

\* The key lists and the items of the requests served.
DispWire == SeqsUpTo(SweepKeys, MaxKeys)

DispItemArgs == {Slice(<<i>>) : i \in [Key : SweepKeys, Value : Values, TTL : {0}]}

\* The kv.Storage a map lookup yields for a name the registry does not hold.
NilStorage == "nil kv.Storage"

\* A reply that the handler has not assigned.
NoRes == "unset"

\* A registry whose every name leads to the in-memory storage.
StoragesAlwaysMemory(name) == IF name \in StorageNames THEN Memory ELSE NilStorage

\* r.svc.Storages[name]
Storages(name) == IF name \in StorageNames THEN name ELSE NilStorage

\* How a handler ends.  A method call on the nil kv.Storage panics, and so
\* does keys[0] on an empty slice; otherwise the storage st is called once,
\* the error is returned, and the reply is assigned when the error is nil.
Panicked == [panic |-> TRUE, ok |-> FALSE, res |-> NoRes, err |-> NoErr, calls |-> <<>>]

Replied(st, op, res, err) ==
    [panic |-> FALSE, ok |-> FALSE, res |-> IF err = NoErr THEN res ELSE NoRes, err |-> err,
     calls |-> <<[storage |-> st, op |-> op]>>]

Acked(st, op, err) ==
    [panic |-> FALSE, ok |-> err = NoErr, res |-> NoRes, err |-> err,
     calls |-> <<[storage |-> st, op |-> op]>>]

DispResult(op, storage, wire, timeout, r) ==
    [op |-> op, storage |-> storage, keys |-> wire, timeout |-> timeout,
     panic |-> r.panic, ok |-> r.ok, res |-> r.res, err |-> r.err, calls |-> r.calls]

RpcServerHas(storage, wire) ==
    /\ Idle
    /\ rpcPc = "idle"
    /\ LET st == Storages(storage)
           r == IF st = Memory THEN StorageHas(heap, RpcKeys(wire)) ELSE RedisHas(rdb, RpcKeys(wire))
       IN  ret' = DispResult("RpcServer.Has", storage, wire, 0,
                             IF st = NilStorage THEN Panicked ELSE Replied(st, "Has", r.res, r.err))
    /\ UNCHANGED <<heap, rdb, closing, rpcPc, dispRest>>

RpcServerGet(storage, wire) ==
    /\ Idle
    /\ rpcPc = "idle"
    /\ LET st == Storages(storage)
           r == IF st = Memory THEN StorageGet(heap, wire[1]) ELSE RedisGet(rdb, wire[1])
       IN  ret' = DispResult("RpcServer.Get", storage, wire, 0,
                             IF st = NilStorage \/ Len(wire) = 0 THEN Panicked
                             ELSE Replied(st, "Get", r.res, r.err))
    /\ UNCHANGED <<heap, rdb, closing, rpcPc, dispRest>>

RpcServerMGet(storage, wire) ==
    /\ Idle
    /\ rpcPc = "idle"
    /\ LET st == Storages(storage)
           r == IF st = Memory THEN StorageMGet(heap, RpcKeys(wire)) ELSE RedisMGet(rdb, RpcKeys(wire))
       IN  ret' = DispResult("RpcServer.MGet", storage, wire, 0,
                             IF st = NilStorage THEN Panicked ELSE Replied(st, "MGet", r.res, r.err))
    /\ UNCHANGED <<heap, rdb, closing, rpcPc, dispRest>>

RpcServerTTL(storage, wire) ==
    /\ Idle
    /\ rpcPc = "idle"
    /\ LET st == Storages(storage)
           r == IF st = Memory THEN StorageTTL(heap, RpcKeys(wire)) ELSE RedisTTL(rdb, RpcKeys(wire))
       IN  ret' = DispResult("RpcServer.TTL", storage, wire, 0,
                             IF st = NilStorage THEN Panicked ELSE Replied(st, "TTL", r.res, r.err))
    /\ UNCHANGED <<heap, rdb, closing, rpcPc, dispRest>>

\* The handler hands the request's timeout and keys to the storage's MExpire.
RpcServerMExpire(storage, timeout, wire) ==
    /\ Idle
    /\ rpcPc = "idle"
    /\ LET st == Storages(storage)
           m == StorageMExpire(heap, timeout, RpcKeys(wire), now)
           d == RedisMExpire(rdb, timeout, RpcKeys(wire))
       IN  /\ heap' = IF st = Memory THEN m.heap ELSE heap
           /\ rdb' = IF st = Redis THEN d.db ELSE rdb
           /\ ret' = DispResult("RpcServer.MExpire", storage, wire, timeout,
                                IF st = NilStorage THEN Panicked
                                ELSE Acked(st, "MExpire", IF st = Memory THEN m.err ELSE d.err))
    /\ UNCHANGED <<closing, rpcPc, dispRest>>

RpcServerDelete(storage, wire) ==
    /\ Idle
    /\ rpcPc = "idle"
    /\ LET st == Storages(storage)
           m == StorageDelete(heap, RpcKeys(wire))
           d == RedisDelete(rdb, RpcKeys(wire))
       IN  /\ heap' = IF st = Memory THEN m.heap ELSE heap
           /\ rdb' = IF st = Redis THEN d.db ELSE rdb
           /\ ret' = DispResult("RpcServer.Delete", storage, wire, 0,
                                IF st = NilStorage THEN Panicked
                                ELSE Acked(st, "Delete", IF st = Memory THEN m.err ELSE d.err))
    /\ UNCHANGED <<closing, rpcPc, dispRest>>

\* The in-memory storage's Close blocks on the stop channel: the handler
\* waits at "close" until gcPhase has received.  The redis adapter's Close
\* closes the client; the client is taken to close without error.
RpcServerClose(storage) ==
    /\ Idle
    /\ rpcPc = "idle"
    /\ LET st == Storages(storage)
       IN  IF st = Memory
           THEN /\ closing' = TRUE
                /\ rpcPc' = "close"
                /\ UNCHANGED ret
           ELSE /\ ret' = DispResult("RpcServer.Close", storage, <<>>, 0,
                                     IF st = NilStorage THEN Panicked ELSE Acked(st, "Close", NoErr))
                /\ UNCHANGED <<closing, rpcPc>>
    /\ UNCHANGED <<heap, rdb, dispRest>>

\* The in-memory storage's Close has returned: *ok = true; return nil.
RpcServerCloseDone ==
    /\ rpcPc = "close"
    /\ ret # NoCall
    /\ ret.op = "Close"
    /\ ret' = DispResult("RpcServer.Close", Memory, <<>>, 0, Acked(Memory, "Close", ret.err))
    /\ rpcPc' = "idle"
    /\ UNCHANGED <<heap, rdb, closing, dispRest>>

\* A caller of the redis adapter itself, between two RPC calls.
DirectRedisSet(items) ==
    /\ Idle
    /\ rpcPc = "idle"
    /\ LET r == RedisSet(rdb, items)
       IN  /\ rdb' = r.db
           /\ ret' = [op |-> "Redis.Set", items |-> items, err |-> r.err]
    /\ UNCHANGED <<heap, closing, rpcPc, dispRest>>

\* The caller of the dispatcher takes the reply.
DispReturn ==
    /\ rpcPc = "idle"
    /\ Return

\* The dispatcher serving single-storage requests over the in-memory storage
\* and the redis adapter, and direct Set calls filling the two, within the
\* first second.
NextDisp ==
    \/ \E storage \in WireNames, wire \in DispWire : RpcServerHas(storage, wire)
    \/ \E storage \in WireNames, wire \in DispWire : RpcServerGet(storage, wire)
    \/ \E storage \in WireNames, wire \in DispWire : RpcServerMGet(storage, wire)
    \/ \E storage \in WireNames, wire \in DispWire : RpcServerTTL(storage, wire)
    \/ \E storage \in WireNames, timeout \in Timeouts, wire \in DispWire :
           RpcServerMExpire(storage, timeout, wire)
    \/ \E storage \in WireNames, wire \in DispWire : RpcServerDelete(storage, wire)
    \/ \E storage \in WireNames : RpcServerClose(storage)
    \/ GcStop
    \/ RpcServerCloseDone
    \/ \E items \in DispItemArgs : DirectSet(items)
    \/ \E items \in DispItemArgs : DirectRedisSet(items)
    \/ DispReturn

SpecDisp == Init /\ [][NextDisp]_vars

----------------------------------------------------------------------------
\* Vocabulary of the properties.

\* The dispatcher's single-storage handlers, and those that only read.
ReadOps == {"RpcServer.Has", "RpcServer.Get", "RpcServer.MGet", "RpcServer.TTL"}

SingleOps == ReadOps \cup {"RpcServer.Delete", "RpcServer.MExpire"}

DispOps == SingleOps \cup {"RpcServer.Close"}

\* The step is a handler call: the idle caller gets a result.
Called(op) == ret = NoCall /\ ret'.op = op

\* The keys of a call, as a set.
KeySet(keys) == {keys.elems[i] : i \in 1..Len(keys.elems)}

ValidKey(k) == TrimSpace(k) # <<>>

\* The step is the reaper's callback returning.
ReaperActs == gcPc = "fn" /\ gcCur' = NoCur

\* k holds an entry whose expiry moment, if it has one, has not passed at t.
Unexpired(h, t, k) == k \in DOMAIN h /\ (h[k].TTL = 0 \/ t <= h[k].TTL)

----------------------------------------------------------------------------
\* C1: an entry that Set stored with no expiry (TTL 0) leaves the map only by
\* a Delete that names its key; no reaper pass removes it.
C1_NoExpiryOnlyDeleted ==
    [][\A k \in DOMAIN heap :
          heap[k].TTL = 0 =>
              \/ k \in DOMAIN heap'
              \/ Called("Delete") /\ k \in KeySet(ret'.keys)]_vars

\* C2: when the reaper, having examined an entry with an expiry, removes the
\* key, the expiry the key's entry has at that moment is not later than the
\* time of the sweep; a Set or MExpire that ran since the reaper examined the
\* entry is not undone.
C2_ReaperSparesLiveEntry ==
    [][ReaperActs /\ gcCur.val.TTL > 0 =>
          \A k \in DOMAIN heap :
              k \notin DOMAIN heap' => heap[k].TTL <= gcNow]_vars

C4_HasIffUnexpired ==
    [][Called("Has") /\ ret'.err = NoErr =>
          \A k \in KeySet(ret'.keys) : ret'.res[k] = Unexpired(heap, now, k)]_vars

\* C5: a valid key that no Set has stored is absent from the map (the map
\* starts empty and only a Set that names a key makes it present), and for an
\* absent valid key Has answers false and Get answers nil, both with no error.
C5_NeverSetIsAbsent ==
    /\ [](\A k \in KeyUniverse \ DOMAIN heap :
             ValidKey(k) =>
                 /\ StorageHas(heap, Slice(<<k>>)) = [res |-> MapPut(EmptyMap, k, FALSE), err |-> NoErr]
                 /\ StorageGet(heap, k) = [res |-> NilBytes, err |-> NoErr])
    /\ [](ret.op \in {"Has", "RpcHas"} /\ ret.err = NoErr =>
             \A k \in KeySet(ret.keys) \ DOMAIN heap : ret.res[k] = FALSE)
    /\ [](ret.op = "Get" /\ KeySet(ret.keys) \cap DOMAIN heap = {} =>
             ret.res = NilBytes /\ (ret.err = NoErr <=> \A k \in KeySet(ret.keys) : ValidKey(k)))
    /\ [][\A k \in KeyUniverse :
             k \notin DOMAIN heap /\ k \in DOMAIN heap' =>
                 /\ Called("Set")
                 /\ \E i \in 1..Len(ret'.items.elems) : ret'.items.elems[i].Key = k]_vars

\* C5 witness: Has was asked for two valid keys, one stored and one not, and
\* answered true and false.
C5_Witness ==
    /\ ret.op = "Has"
    /\ ret.err = NoErr
    /\ \E k1 \in DOMAIN heap, k2 \in KeySet(ret.keys) \ DOMAIN heap :
          /\ ret.keys.elems = <<k1, k2>>
          /\ ret.res[k1] = TRUE
          /\ ret.res[k2] = FALSE

\* C6: right after Set has stored an item (k, v, no expiry) for a valid key k,
\* Has(k) answers true and Get(k) answers v, and after Delete(k) on that state
\* Has(k) answers false.
C6_RoundTrip ==
    [][Called("Set") /\ ret'.err = NoErr =>
          \A i \in 1..Len(ret'.items.elems) :
              LET it == ret'.items.elems[i]
                  k == it.Key
                  last == \A j \in (i + 1)..Len(ret'.items.elems) : ret'.items.elems[j].Key # k
                  del == StorageDelete(heap', Slice(<<k>>))
              IN  ValidKey(k) /\ it.TTL = 0 /\ last =>
                      /\ StorageHas(heap', Slice(<<k>>)) = [res |-> MapPut(EmptyMap, k, TRUE), err |-> NoErr]
                      /\ StorageGet(heap', k) = [res |-> Bytes(it.Value), err |-> NoErr]
                      /\ del.err = NoErr
                      /\ StorageHas(del.heap, Slice(<<k>>)) = [res |-> MapPut(EmptyMap, k, FALSE), err |-> NoErr]]_vars

\* C6 witness: Set has returned after overwriting nothing or something with
\* an item without expiry, and the key holds it.
C6_Witness ==
    /\ ret.op = "Set"
    /\ ret.err = NoErr
    /\ Len(ret.items.elems) = 1
    /\ ret.items.elems[1].TTL = 0
    /\ ValidKey(ret.items.elems[1].Key)
    /\ ret.items.elems[1].Key \in DOMAIN heap
    /\ heap[ret.items.elems[1].Key].Value = ret.items.elems[1].Value

\* C7: Delete on valid keys returns no error whether or not the keys are
\* stored, and MGet on the same keys then returns an empty list.
C7_DeleteThenMGetEmpty ==
    ret.op = "Delete" =>
        /\ (~ret.keys.isNil /\ \A k \in KeySet(ret.keys) : ValidKey(k)) => ret.err = NoErr
        /\ ret.err = NoErr =>
               /\ KeySet(ret.keys) \cap DOMAIN heap = {}
               /\ StorageMGet(heap, ret.keys) = [res |-> <<>>, err |-> NoErr]

\* C7 witness: one Delete named the same key twice (the second removal finds
\* the key absent) and returned no error, other keys staying stored.
C7_Witness ==
    /\ ret.op = "Delete"
    /\ ret.err = NoErr
    /\ Len(ret.keys.elems) = 2
    /\ ret.keys.elems[1] = ret.keys.elems[2]
    /\ heap # EmptyMap

\* C8: MExpire creates no entry and removes none; it leaves key and value of
\* every entry as they were, changes nothing at all for a key it was not given,
\* and sets the expiry of the given stored keys; with a timeout and a key list
\* it returns no error, whether or not the keys are stored.
C8_MExpireOnlyExpiry ==
    [][Called("MExpire") =>
          /\ DOMAIN heap' = DOMAIN heap
          /\ \A k \in DOMAIN heap :
                /\ heap'[k].Key = heap[k].Key
                /\ heap'[k].Value = heap[k].Value
                /\ (k \notin KeySet(ret'.keys) \/ ret'.err # NoErr) => heap'[k] = heap[k]
                /\ (k \in KeySet(ret'.keys) /\ ret'.err = NoErr) => heap'[k].TTL = now + ret'.timeout
          /\ (ret'.timeout # 0 /\ ~ret'.keys.isNil) => ret'.err = NoErr]_vars

\* C8 witness: MExpire was given a stored key and a key that is not stored;
\* it returned no error, the stored key has the new expiry and its value, the
\* other key is still absent, and a third key is stored.
C8_Witness ==
    /\ ret.op = "MExpire"
    /\ ret.err = NoErr
    /\ \E k1 \in DOMAIN heap, k2 \in KeyUniverse \ DOMAIN heap, k3 \in DOMAIN heap :
          /\ ret.keys.elems = <<k1, k2>>
          /\ heap[k1].TTL = now + ret.timeout
          /\ heap[k1].Value = "v"
          /\ k3 # k1
          /\ heap[k3].TTL = 0

\* C9: Has, Get, MGet, MExpire, TTL and Delete return the empty-key error
\* when one of their keys, at any position, is empty or white space only
\* (MExpire being given a timeout).
C9_EmptyKeyRejected ==
    (/\ ret.op \in {"Has", "Get", "MGet", "MExpire", "TTL", "Delete"}
     /\ ret.op = "MExpire" => ret.timeout # 0
     /\ \E k \in KeySet(ret.keys) : ~ValidKey(k))
        => ret.err = ErrEmptyKey

\* C10: Has, MGet, TTL, Delete, MExpire and Set return the no-keys error when
\* they are given no key or item, called directly or through the dispatcher.
C10_NoKeysRejected ==
    /\ (ret.op \in {"Has", "MGet", "TTL", "Delete", "MExpire", "RpcHas"} /\ Len(ret.keys.elems) = 0)
           => ret.err = ErrNoKeys
    /\ (ret.op = "Set" /\ Len(ret.items.elems) = 0) => ret.err = ErrNoKeys

\* C11: Set returns the empty-item error when an item of the batch is the
\* zero-value item, and stores no entry under the empty key.
C11_EmptyItemRejected ==
    (ret.op = "Set" /\ \E i \in 1..Len(ret.items.elems) : ret.items.elems[i] = EmptyItem)
        => ret.err = ErrEmptyItem /\ <<>> \notin DOMAIN heap

\* C12: a Set, MExpire or Delete that returns an error has left the map
\* exactly as it was before the call.
C12_ErrorLeavesMapAlone ==
    [][(Called("Set") \/ Called("MExpire") \/ Called("Delete")) /\ ret'.err # NoErr
          => heap' = heap]_vars

\* C12 witness: Delete was given a stored key followed by an empty key; it
\* returned the empty-key error and the stored key is still stored.
C12_Witness ==
    /\ ret.op = "Delete"
    /\ ret.err = ErrEmptyKey
    /\ Len(ret.keys.elems) = 2
    /\ ret.keys.elems[1] \in DOMAIN heap
    /\ ~ValidKey(ret.keys.elems[2])

\* C13: when the first item of a batch to fail validation (the zero-value
\* item) comes after other items, Set returns that item's error, the items
\* before it are stored, and neither it nor the items after it are stored.
C13_SetStopsAtFirstBadItem ==
    [][Called("Set") /\ (\E i \in 2..Len(ret'.items.elems) : ret'.items.elems[i] = EmptyItem)
                    /\ ret'.items.elems[1] # EmptyItem =>
          LET items == ret'.items.elems
              bad == CHOOSE i \in 2..Len(items) :
                         items[i] = EmptyItem /\ \A j \in 1..(i - 1) : items[j] # EmptyItem
          IN  /\ ret'.err = ErrEmptyItem
              /\ heap' = SetLoop(heap, SubSeq(items, 1, bad - 1), 1, now)]_vars

\* C14: MGet on valid keys returns the values of exactly the requested keys
\* that are stored and unexpired at the time of the call, in request order.
C14_MGetPresentUnexpired ==
    [][Called("MGet") /\ ret'.err = NoErr =>
          LET want == SelectSeq(ret'.keys.elems, LAMBDA k : Unexpired(heap, now, k))
          IN  /\ Len(ret'.res) = Len(want)
              /\ Len(ret'.res) <= Len(ret'.keys.elems)
              /\ \A i \in 1..Len(want) : ret'.res[i].Value = heap[want[i]].Value]_vars

\* C15: TTL returns, for a stored key whose expiry moment has not passed,
\* the time left (expiry moment minus current time), and leaves a key that is
\* absent or expired out of its result.
C15_TTLRemaining ==
    [][Called("TTL") /\ ret'.err = NoErr =>
          \A k \in KeySet(ret'.keys) :
              /\ (k \in DOMAIN heap /\ heap[k].TTL > 0 /\ now <= heap[k].TTL)
                     => k \in DOMAIN ret'.res /\ ret'.res[k] = heap[k].TTL - now
              /\ (k \notin DOMAIN heap \/ (heap[k].TTL > 0 /\ now > heap[k].TTL))
                     => k \notin DOMAIN ret'.res]_vars

\* C16: no Close is left blocked on the stop channel after gcPhase has
\* returned (nothing receives from the channel then, so such a Close never
\* returns).
C16_CloseReturns == ~(closing /\ gcPc = "stopped")

\* C17: once Close has returned, gcPhase has returned: it receives no tick,
\* starts no sweep and deletes nothing, and the map changes only by the
\* callers' Set, MExpire and Delete.
C17_CloseStopsReaper ==
    /\ [](ret.op = "Close" => gcPc = "stopped")
    /\ [][gcPc = "stopped" =>
             /\ gcPc' = "stopped"
             /\ UNCHANGED <<tickCh, gcNow, gcTodo, gcCur>>
             /\ heap' # heap => Called("Set") \/ Called("MExpire") \/ Called("Delete")]_vars

\* C17 witness: Close has returned while a tick was buffered on ticker.C and
\* an expired entry was stored; the tick is not received and the entry stays.
C17_Witness ==
    /\ ret.op = "Close"
    /\ gcPc = "stopped"
    /\ tickCh # NoTick
    /\ \E k \in DOMAIN heap : heap[k].TTL > 0 /\ now > heap[k].TTL

C19_FirstKeepsSecondFails ==
    (/\ ret.op = "RpcSet"
     /\ ret.storages = <<Memory, Redis>>
     /\ Len(ret.items) > 1
     /\ ret.items[1] # EmptyItem
     /\ StorageSet(EmptyMap, Slice(ret.items), now).err = NoErr
     /\ RedisSet(EmptyMap, Slice(ret.items)).err # NoErr)
        => /\ ~ret.panic
           /\ ret.err = RedisSet(EmptyMap, Slice(ret.items)).err
           /\ \A i \in 1..Len(ret.items) : ret.items[i].Key \in DOMAIN heap

\* C20: when an RPC Set that names several registered storages, each once, is over,
\* every named storage has received exactly one Set call and no other storage
\* any, and each call carried the items of the request in request order.
C20_FanOutExactlyOnce ==
    (/\ ret.op = "RpcSet"
     /\ Len(ret.storages) > 1
     /\ \A i \in 1..Len(ret.storages) : ret.storages[i] \in StorageNames
     /\ \A i, j \in 1..Len(ret.storages) : ret.storages[i] = ret.storages[j] => i = j)
        => /\ ~ret.panic
           /\ Len(ret.calls) = Len(ret.storages)
           /\ \A i \in 1..Len(ret.storages) :
                  \E j \in 1..Len(ret.calls) : ret.calls[j].storage = ret.storages[i]
           /\ \A j \in 1..Len(ret.calls) : ret.calls[j].items = Slice(ret.items)

\* C28: Set replaces the whole entry of a key, whatever was stored before: the
\* entry then holds the item's value and the item's expiry (none for TTL 0);
\* and while the caller makes no further call, an entry it has just stored
\* without expiry stays as it is.
C28_SetOverwritesWholeEntry ==
    /\ [][Called("Set") /\ ret'.err = NoErr =>
             \A i \in 1..Len(ret'.items.elems) :
                 LET it == ret'.items.elems[i]
                 IN  (\A j \in (i + 1)..Len(ret'.items.elems) : ret'.items.elems[j].Key # it.Key) =>
                         /\ it.Key \in DOMAIN heap'
                         /\ heap'[it.Key].Value = it.Value
                         /\ heap'[it.Key].TTL = IF it.TTL > 0 THEN now + it.TTL ELSE 0]_vars
    /\ [][(ret.op = "Set" /\ ret' = ret /\ ret.err = NoErr) =>
             \A i \in 1..Len(ret.items.elems) :
                 LET it == ret.items.elems[i]
                 IN  (it.TTL = 0 /\ it.Key \in DOMAIN heap /\ heap[it.Key].TTL = 0) =>
                         it.Key \in DOMAIN heap' /\ heap'[it.Key] = heap[it.Key]]_vars

\* C22: a handler called with a cancelled context returns an error and leaves
\* the map as it was.
C22_CancelledContextHonoured ==
    [][(ret = NoCall /\ ret' # NoCall /\ ret'.cancelled) =>
          ret'.err # NoErr /\ heap' = heap]_vars

\* C23: on the same arguments, a handler of the in-memory storage returns the
\* empty-key, no-keys or empty-item error exactly when the redis adapter's
\* handler of that name returns it.
C23_SameValidation ==
    LET Validation(e) == IF e \in {ErrEmptyKey, ErrNoKeys, ErrEmptyItem} THEN e ELSE NoErr
    IN  /\ ret.op = "Has" => Validation(ret.err) = Validation(RedisHas(rdb, ret.keys).err)
        /\ ret.op = "Get" => Validation(ret.err) = Validation(RedisGet(rdb, ret.keys.elems[1]).err)
        /\ ret.op = "MGet" => Validation(ret.err) = Validation(RedisMGet(rdb, ret.keys).err)
        /\ ret.op = "TTL" => Validation(ret.err) = Validation(RedisTTL(rdb, ret.keys).err)
        /\ ret.op = "Delete" => Validation(ret.err) = Validation(RedisDelete(rdb, ret.keys).err)
        /\ ret.op = "MExpire" =>
               Validation(ret.err) = Validation(RedisMExpire(rdb, ret.timeout, ret.keys).err)
        /\ ret.op = "Set" => Validation(ret.err) = Validation(RedisSet(rdb, ret.items).err)

\* C25: when the writer's Set has returned and the other caller, who only
\* runs MExpire, is in no call, every key of the Set holds the value the Set
\* gave it: an MExpire running at the same time has not written back a value
\* it read before the Set.
C25_SetNotUndoneByMExpire ==
    (/\ callers[Writer] # NoCall
     /\ callers[Writer].op = "Set"
     /\ callers[Writer].pc = "done"
     /\ callers[Writer].err = NoErr
     /\ callers[Expirer] = NoCall \/ callers[Expirer].pc = "done")
        => \A i \in 1..Len(callers[Writer].args.elems) :
               LET items == callers[Writer].args.elems
               IN  (\A j \in (i + 1)..Len(items) : items[j].Key # items[i].Key) =>
                       /\ items[i].Key \in DOMAIN heap
                       /\ heap[items[i].Key].Value = items[i].Value

\* C26: when the writer's Delete has returned and the other caller, who only
\* runs MExpire, is in no call, the deleted keys are absent: an MExpire
\* running at the same time has not stored them again.
C26_MExpireDoesNotRecreate ==
    (/\ callers[Writer] # NoCall
     /\ callers[Writer].op = "Delete"
     /\ callers[Writer].pc = "done"
     /\ callers[Writer].err = NoErr
     /\ callers[Expirer] = NoCall \/ callers[Expirer].pc = "done")
        => KeySet(callers[Writer].args) \cap DOMAIN heap = {}

\* C21: a single-storage RPC call that names a storage the registry does not
\* hold ends without a panic, returns an error, and no storage has received
\* a call.
C21_UnknownStorageIsAnError ==
    (ret.op \in DispOps /\ ret.storage \notin StorageNames)
        => /\ ~ret.panic
           /\ ret.err # NoErr
           /\ ret.calls = <<>>

\* C24: an RPC Set, MExpire, Delete or Close that has returned replies true
\* exactly when the error it returned is nil.
C24_OkIffNoError ==
    (ret.op \in {"RpcSet", "RpcServer.MExpire", "RpcServer.Delete", "RpcServer.Close"} /\ ~ret.panic)
        => (ret.ok <=> ret.err = NoErr)

\* The error a storage's Set returns for a batch (the validation does not
\* depend on what the storage holds).
SetErr(name, items) ==
    IF name = Memory THEN StorageSet(EmptyMap, Slice(items), StartTime).err
    ELSE RedisSet(EmptyMap, Slice(items)).err

\* C27: an RPC Set over registered storages, one of which rejects the batch,
\* does not panic and returns the error of the first per-storage call that
\* failed.
C27_FirstErrorWins ==
    (/\ ret.op = "RpcSet"
     /\ \A i \in 1..Len(ret.storages) : ret.storages[i] \in StorageNames
     /\ \E i \in 1..Len(ret.storages) : SetErr(ret.storages[i], ret.items) # NoErr)
        => /\ ~ret.panic
           /\ \E j \in 1..Len(ret.calls) :
                  /\ SetErr(ret.calls[j].storage, ret.items) # NoErr
                  /\ ret.err = SetErr(ret.calls[j].storage, ret.items)
                  /\ \A i \in 1..(j - 1) : SetErr(ret.calls[i].storage, ret.items) = NoErr

\* C29: a single-storage RPC call (Has, Get, MGet, TTL, Delete, MExpire) calls
\* no storage but the one it names and leaves every other storage as it was;
\* Has, Get, MGet and TTL leave the named storage as it was too.
C29_OnlyNamedStorageTouched ==
    [][(ret = NoCall /\ ret' # NoCall /\ ret'.op \in SingleOps) =>
           /\ \A j \in 1..Len(ret'.calls) : ret'.calls[j].storage = ret'.storage
           /\ ret'.storage # Memory => heap' = heap
           /\ ret'.storage # Redis => rdb' = rdb
           /\ ret'.op \in ReadOps => heap' = heap /\ rdb' = rdb]_vars

\* C29 witness: an RPC Delete on the redis adapter has removed a key that the
\* in-memory storage still holds.
C29_Witness ==
    /\ ret.op = "RpcServer.Delete"
    /\ ret.storage = Redis
    /\ ret.err = NoErr
    /\ \E i \in 1..Len(ret.keys) : ret.keys[i] \in DOMAIN heap /\ ret.keys[i] \notin DOMAIN rdb

\* C30: an RPC Get on a registered storage does not panic; with one or more
\* keys it returns what the named storage's Get returns for the first key;
\* with no key it returns an error and calls no storage.
C30_GetFirstKeyOnly ==
    (ret.op = "RpcServer.Get" /\ ret.storage \in StorageNames)
        => /\ ~ret.panic
           /\ Len(ret.keys) = 0 => ret.err # NoErr /\ ret.calls = <<>>
           /\ Len(ret.keys) > 0 =>
                  LET r == IF ret.storage = Memory THEN StorageGet(heap, ret.keys[1])
                           ELSE RedisGet(rdb, ret.keys[1])
                  IN  /\ ret.err = r.err
                      /\ r.err = NoErr => ret.res = r.res

====
